---- MODULE Spec2Model ----
(***************************************************************************)
(* Model of the recursive ray tracer of "Ray Tracing/Main.cpp":            *)
(* Sphere::Intersect, Triangle::Intersect, Raycast and RayTrace.           *)
(*                                                                         *)
(* Numbers.  A float is modelled as a fixed-point number: the integer n    *)
(* stands for n / Scale.  Products, quotients and square roots round to    *)
(* that grid (as float operations round to the float grid); sums and       *)
(* differences are exact.  On rays whose origin has whole coordinates and  *)
(* whose direction is an axis, against spheres of whole radius r with      *)
(* r*r - (whole offset)^2 a perfect square, every operation is exact.      *)
(* The non-finite floats are the three values Inf, -Inf and NaN.           *)
(***************************************************************************)
EXTENDS Integers, Sequences, FiniteSets, TLC

\* ------------------------------------------------------------------ bounds
\* Largest |z| of a probe ray's origin (whole units).
MaxZ == 5
\* Largest |x|, |y| of a probe ray's origin (whole units).
MaxXY == 1

\* --------------------------------------------------------------- numerics
Root == 10^2
Scale == Root * Root
\* the float with whole value n
R(n) == n * Scale

Inf == 2^30
NaN == 2^30 + 1
IsFinite(a) == a # NaN /\ a # Inf /\ a # -Inf

Abs(a) == IF a < 0 THEN -a ELSE a
Sgn(a) == IF a < 0 THEN -1 ELSE IF a > 0 THEN 1 ELSE 0
Max2(a, b) == IF a < b THEN b ELSE a

\* a * b of two finite floats, rounded to nearest
\* (computed on the whole and fractional parts, so that no intermediate
\* value leaves 32 bits)
MulMag(a, b) ==
    LET qa == a \div Scale
        ra == a % Scale
        qb == b \div Scale
        rb == b % Scale
    IN  qa * qb * Scale + qa * rb + qb * ra + (ra * rb + Scale \div 2) \div Scale
Mul(a, b) == Sgn(a) * Sgn(b) * MulMag(Abs(a), Abs(b))

\* a / b of two finite floats, b # 0, rounded to nearest
\* (long division in base Root, for the same reason)
DivMag(a, b) ==
    LET q1 == a \div b
        x1 == (a % b) * Root
        q2 == x1 \div b
        x2 == (x1 % b) * Root
        q3 == x2 \div b
        up == IF 2 * (x2 % b) >= b THEN 1 ELSE 0
    IN  q1 * Scale + q2 * Root + q3 + up
Div(a, b) == Sgn(a) * Sgn(b) * DivMag(Abs(a), Abs(b))

\* IEEE a / b: a zero divisor gives an infinity, 0/0 gives NaN
FDiv(a, b) ==
    IF b = 0 THEN (IF a = 0 THEN NaN ELSE IF a > 0 THEN Inf ELSE -Inf)
    ELSE Div(a, b)

\* IEEE a + b over the finite floats and Inf, -Inf, NaN
FAdd(a, b) ==
    IF a = NaN \/ b = NaN THEN NaN
    ELSE IF a = Inf THEN (IF b = -Inf THEN NaN ELSE Inf)
    ELSE IF a = -Inf THEN (IF b = Inf THEN NaN ELSE -Inf)
    ELSE IF b = Inf \/ b = -Inf THEN b
    ELSE a + b

\* IEEE -a
FNeg(a) == IF a = NaN THEN NaN ELSE -a

\* IEEE comparisons: every comparison with NaN is false
FLe(a, b) == a # NaN /\ b # NaN /\ a <= b
FLt(a, b) == a # NaN /\ b # NaN /\ a < b
FGt(a, b) == a # NaN /\ b # NaN /\ a > b

\* s * s <= a * Scale, computed without leaving 32 bits (s = Root*q + r)
SqLeq(s, a) ==
    LET q == s \div Root
        r == s % Root
        diff == a - q * q
    IN  IF q > 46340 THEN FALSE   \* q*q would exceed every 32-bit a
        ELSE IF diff < 0 THEN FALSE
        ELSE IF diff > 2 * q THEN TRUE
        ELSE 2 * Root * q * r + r * r <= Scale * diff

RECURSIVE SqrtSearch(_, _, _)
\* the largest s in lo..hi with s*s <= a*Scale (lo satisfies it)
SqrtSearch(lo, hi, a) ==
    IF lo = hi THEN lo
    ELSE LET mid == (lo + hi + 1) \div 2
         IN  IF SqLeq(mid, a) THEN SqrtSearch(mid, hi, a)
             ELSE SqrtSearch(lo, mid - 1, a)

\* sqrt(a): NaN for a negative argument, else the root rounded down to the grid
Sqrt(a) == IF a < 0 THEN NaN ELSE SqrtSearch(0, Max2(a, Scale), a)

RECURSIVE Pow(_, _)
\* pow(x, s) for x >= 0 and an exponent s that is a multiple of 0.5
Pow(x, s) ==
    IF s <= 0 THEN R(1)
    ELSE IF s < Scale THEN Sqrt(x)
    ELSE Mul(x, Pow(x, s - Scale))

\* ---------------------------------------------------------------- vectors
V3(x, y, z) == <<R(x), R(y), R(z)>>
VAdd(a, b) == <<a[1] + b[1], a[2] + b[2], a[3] + b[3]>>
VSub(a, b) == <<a[1] - b[1], a[2] - b[2], a[3] - b[3]>>
VNeg(a) == <<-a[1], -a[2], -a[3]>>
\* k * v
VScale(k, v) == <<Mul(k, v[1]), Mul(k, v[2]), Mul(k, v[3])>>
\* component-wise a * b
VMul(a, b) == <<Mul(a[1], b[1]), Mul(a[2], b[2]), Mul(a[3], b[3])>>
\* v / k
VDiv(v, k) == <<Div(v[1], k), Div(v[2], k), Div(v[3], k)>>
Dot(a, b) == Mul(a[1], b[1]) + Mul(a[2], b[2]) + Mul(a[3], b[3])
Cross(a, b) ==
    << Mul(a[2], b[3]) - Mul(a[3], b[2]),
       Mul(a[3], b[1]) - Mul(a[1], b[3]),
       Mul(a[1], b[2]) - Mul(a[2], b[1]) >>
Length(v) == Sqrt(Dot(v, v))
Normalize(v) == VDiv(v, Length(v))
\* glm::reflect(I, N) = I - 2 dot(N, I) N
Reflect(I, N) == VSub(I, VScale(2 * Dot(N, I), N))

\* the value of a float that was never written, and of a vector of such
\* floats (no operator of the model reads either)
Uninit == 2^30 + 2
UninitVec == <<Uninit, Uninit, Uninit>>

\* ------------------------------------------------------------- primitives
Ray(o, d) == [origin |-> o, direction |-> d]
Material(a, d, s, sh) == [ambient |-> a, diffuse |-> d, specular |-> s, shininess |-> sh]
Sphere(c, r, m) == [kind |-> "sphere", center |-> c, radius |-> r, material |-> m]
Triangle(a, b, c, m) == [kind |-> "tri", A |-> a, B |-> b, C |-> c, material |-> m]

\* What one Intersect call leaves behind: the returned float and the two
\* out-parameters (outP, outN are their values before the call).
Hit(t, p, n) == [t |-> t, point |-> p, normal |-> n]

\* In the operators below an intermediate value of the code (a local
\* variable) is a parameter of the operator that models the rest of the
\* function, so that it is computed once.

\* SphereHitAt with the normal left unnormalized (mutant)
SphereHitAtRaw(s, t, p) == Hit(t, p, VSub(p, s.center))

\* `outIntersectionPoint = P + t * d; outIntersectionNormal = normalize(point - center); return t`
SphereHitAt(s, t, p) == Hit(t, p, Normalize(VSub(p, s.center)))
SphereHit(s, ray, t) == SphereHitAt(s, t, VAdd(ray.origin, VScale(t, ray.direction)))

\* the branches of Sphere::Intersect on checkIntersection, t1 and t2
SphereChoose(s, ray, outP, outN, checkIntersection, t1, t2) ==
    IF checkIntersection < 0 THEN Hit(R(-1), outP, outN)
    ELSE IF checkIntersection = 0 THEN SphereHit(s, ray, t1)
    ELSE IF t1 < 0 /\ t2 < 0 THEN Hit(R(-1), outP, outN)
    ELSE IF (t1 < 0 /\ t2 > 0) \/ (t1 > 0 /\ t2 < 0)
         THEN (IF t1 > 0 THEN SphereHit(s, ray, t1) ELSE SphereHit(s, ray, t2))
    ELSE IF t1 > t2 THEN SphereHit(s, ray, t2) ELSE SphereHit(s, ray, t1)

\* t1 = -b + sqrt(checkIntersection), t2 = -b - sqrt(checkIntersection)
SphereRoots(s, ray, outP, outN, b, checkIntersection, root) ==
    SphereChoose(s, ray, outP, outN, checkIntersection,
                 FAdd(-b, root), FAdd(-b, FNeg(root)))

\* checkIntersection = b * b - c
SphereDisc(s, ray, outP, outN, b, checkIntersection) ==
    SphereRoots(s, ray, outP, outN, b, checkIntersection, Sqrt(checkIntersection))

\* b = dot(m, d), c = dot(m, m) - radius * radius, with m = P - center
SphereCoeffs(s, ray, outP, outN, m, b) ==
    SphereDisc(s, ray, outP, outN, b,
               Mul(b, b) - (Dot(m, m) - Mul(s.radius, s.radius)))
SphereFrom(s, ray, outP, outN, m) ==
    SphereCoeffs(s, ray, outP, outN, m, Dot(m, ray.direction))

\* Sphere::Intersect
SphereIntersect(s, ray, outP, outN) ==
    SphereFrom(s, ray, outP, outN, VSub(ray.origin, s.center))

\* TriangleChoose without the test f > 0, a two-sided triangle (mutant)
TriangleChooseTwoSided(tr, ray, outP, outN, n, f, t, u, v) ==
    IF FLe(t, 0) THEN Hit(R(-1), outP, outN)
    ELSE IF FLe(FAdd(u, v), R(1)) /\ FGt(u, 0) /\ FGt(v, 0)
         THEN Hit(t, VAdd(ray.origin, VScale(t, ray.direction)), Normalize(n))
    ELSE Hit(R(-1), outP, outN)

\* TriangleChoose accepting a plane seen edge-on or from the front (f >= 0)
TriangleChooseEdgeOn(tr, ray, outP, outN, n, f, t, u, v) ==
    IF FLt(t, 0) THEN Hit(R(-1), outP, outN)
    ELSE IF f >= 0 /\ ~FGt(FAdd(u, v), R(1)) /\ ~FLe(u, 0) /\ ~FLe(v, 0)
         THEN Hit(t, VAdd(ray.origin, VScale(t, ray.direction)), Normalize(n))
    ELSE Hit(R(-1), outP, outN)

\* the tests of Triangle::Intersect on t, u, v and f
TriangleChoose(tr, ray, outP, outN, n, f, t, u, v) ==
    IF FLe(t, 0) THEN Hit(R(-1), outP, outN)
    ELSE IF FLe(FAdd(u, v), R(1)) /\ FGt(u, 0) /\ FGt(v, 0) /\ f > 0
         THEN Hit(t, VAdd(ray.origin, VScale(t, ray.direction)), Normalize(n))
    ELSE Hit(R(-1), outP, outN)

\* t = dot(P - A, n) / f, u = dot(C - A, e) / f, v = dot(-(B - A), e) / f
TriangleSolve(tr, ray, outP, outN, AB, AC, PA, n, e, f) ==
    TriangleChoose(tr, ray, outP, outN, n, f,
                   FDiv(Dot(PA, n), f), FDiv(Dot(AC, e), f), FDiv(Dot(VNeg(AB), e), f))

\* n = cross(B - A, C - A), e = cross(-d, P - A), f = dot(-d, n)
TrianglePlane(tr, ray, outP, outN, nd, AB, AC, PA, n) ==
    TriangleSolve(tr, ray, outP, outN, AB, AC, PA, n, Cross(nd, PA), Dot(nd, n))
TriangleEdges(tr, ray, outP, outN, AB, AC) ==
    TrianglePlane(tr, ray, outP, outN, VNeg(ray.direction), AB, AC,
                  VSub(ray.origin, tr.A), Cross(AB, AC))

\* Triangle::Intersect
TriangleIntersect(tr, ray, outP, outN) ==
    TriangleEdges(tr, ray, outP, outN, VSub(tr.B, tr.A), VSub(tr.C, tr.A))

\* the virtual call SceneObject::Intersect
Intersect(obj, ray, outP, outN) ==
    IF obj.kind = "sphere" THEN SphereIntersect(obj, ray, outP, outN)
    ELSE TriangleIntersect(obj, ray, outP, outN)

\* ---------------------------------------------------------------- Raycast
\* An IntersectionInfo.  obj is the position of the object in scene.objects;
\* 0 is nullptr.
Info(ray, t, obj, p, n) ==
    [incomingRay |-> ray, t |-> t, obj |-> obj,
     intersectionPoint |-> p, intersectionNormal |-> n]

\* the local `IntersectionInfo ret;` of Raycast after `ret.obj = nullptr`
NoHit == Info(Ray(UninitVec, UninitVec), Uninit, 0, UninitVec, UninitVec)

\* the element pushed for scene.objects[i] by the first loop of Raycast,
\* h being what Intersect left behind
CandidateOf(ray, i, h) ==
    Info(ray, h.t, IF FLt(h.t, 0) THEN 0 ELSE i, h.point, h.normal)
Candidate(ray, objects, i) ==
    CandidateOf(ray, i, Intersect(objects[i], ray, UninitVec, UninitVec))

Intersections(ray, objects) ==
    [i \in 1..Len(objects) |-> Candidate(ray, objects, i)]

RECURSIVE Shortest(_, _, _, _)
\* the last loop of Raycast from position i on
Shortest(xs, i, shortestDistance, index) ==
    IF i > Len(xs) THEN index
    ELSE IF (shortestDistance < 0 /\ xs[i].t > 0)
            \/ (shortestDistance > xs[i].t /\ xs[i].t > 0)
         THEN Shortest(xs, i + 1, xs[i].t, i)
    ELSE Shortest(xs, i + 1, shortestDistance, index)

\* Raycast once the candidates are collected.  Of an empty list the code
\* reads intersections[0].t, which is undefined: Select gives the result of
\* a build where the read does no harm (the value is not used), and
\* ProbeRaycast has the other outcome, a fault.
Select(xs) ==
    IF \A i \in 1..Len(xs) : xs[i].obj = 0 THEN NoHit
    ELSE xs[Shortest(xs, 1, xs[1].t, 1)]

\* the positions i of the accesses intersections[i] of Raycast, counted from
\* 0 as the code counts them: the loop that looks for a hit, the read
\* `intersections[0].t` before the test of noIntersection, and, when there is
\* a hit, the last loop and `return intersections[index]`
IndicesRead(xs) ==
    {i - 1 : i \in 1..Len(xs)} \cup {0}
        \cup (IF \A i \in 1..Len(xs) : xs[i].obj = 0 THEN {}
              ELSE {Shortest(xs, 1, xs[1].t, 1) - 1})

\* Raycast(ray, scene)
Raycast(ray, objects) == Select(Intersections(ray, objects))

\* ---------------------------------------------------------------- shading
Light(pos, a, d, s, c, l, q) ==
    [position |-> pos, ambient |-> a, diffuse |-> d, specular |-> s,
     constant |-> c, linear |-> l, quadratic |-> q]
\* glm::vec3(light.position)
LightXYZ(light) == <<light.position[1], light.position[2], light.position[3]>>

\* IEEE a * b over the finite floats and Inf, -Inf, NaN
FMul(a, b) ==
    IF a = NaN \/ b = NaN THEN NaN
    ELSE IF IsFinite(a) /\ IsFinite(b) THEN Mul(a, b)
    ELSE IF a = 0 \/ b = 0 THEN NaN
    ELSE Sgn(a) * Sgn(b) * Inf

\* sums, scalings and quotients of colors, which may hold non-finite floats
CAdd(a, b) == <<FAdd(a[1], b[1]), FAdd(a[2], b[2]), FAdd(a[3], b[3])>>
CScale(k, c) == <<FMul(k, c[1]), FMul(k, c[2]), FMul(k, c[3])>>
CDiv(c, k) == <<FDiv(c[1], k), FDiv(c[2], k), FDiv(c[3], k)>>
Black == <<0, 0, 0>>
\* a miss color of black
MissColorBlack == <<0, 0, 0>>
\* `glm::vec3 color = glm::vec3(0.33f, 0.6f, 0.75f)`
MissColor == <<33 * Root, 60 * Root, 75 * Root>>

\* What the body of one branch of the light loop pushes: kind is "lit" (the
\* three vectors get a term), "shadow" (ambientValues alone) or "none" (the
\* light is neither a point nor a directional light: nothing is pushed).
Terms(kind, a, d, s) == [kind |-> kind, ambient |-> a, diffuse |-> d, specular |-> s]

\* d * (material.diffuse * light.diffuse), d = max(dot(normal, dir), 0)
DiffuseTerm(mat, light, normal, dir) ==
    VScale(Max2(Dot(normal, dir), 0), VMul(mat.diffuse, light.diffuse))
\* s * (material.specular * light.specular),
\* s = pow(max(dot(reflect(lightDir, normal), e), 0), shininess)
SpecularTerm(mat, light, normal, lightDir, e) ==
    VScale(Pow(Max2(Dot(Reflect(lightDir, normal), e), 0), mat.shininess),
           VMul(mat.specular, light.specular))
\* e = normalize(camera.position - ret.intersectionPoint)
ViewDir(camera, ret) == Normalize(VSub(camera.position, ret.intersectionPoint))

\* the two branches of `if (shadowInfo.obj == nullptr || pointDistance < shadowInfo.t)`
PointTerms(ret, mat, light, camera, lit, attenuation, lightDir) ==
    IF lit
    THEN Terms("lit",
               VScale(attenuation, VMul(mat.ambient, light.ambient)),
               VScale(attenuation, DiffuseTerm(mat, light, ret.intersectionNormal, lightDir)),
               VScale(attenuation,
                      SpecularTerm(mat, light, ret.intersectionNormal, lightDir,
                                   ViewDir(camera, ret))))
    ELSE Terms("shadow", VScale(attenuation, VMul(mat.ambient, light.ambient)),
               Black, Black)

\* attenuation = 1 / (constant + linear * d + quadratic * (d * d))
Attenuation(light, pointDistance) ==
    Div(R(1), light.constant + Mul(light.linear, pointDistance)
              + Mul(light.quadratic, Mul(pointDistance, pointDistance)))

\* PointLit without the comparison of the distances
PointLitNoDistance(shadowInfo, pointDistance) ==
    shadowInfo.obj = 0

\* PointLit without the test of shadowInfo.obj
PointLitNoNullTest(shadowInfo, pointDistance) ==
    FLt(pointDistance, shadowInfo.t)

\* `shadowInfo.obj == nullptr || pointDistance < shadowInfo.t`
PointLit(shadowInfo, pointDistance) ==
    shadowInfo.obj = 0 \/ FLt(pointDistance, shadowInfo.t)

PointShaded(ret, mat, light, camera, shadowInfo, pointDistance) ==
    PointTerms(ret, mat, light, camera, PointLit(shadowInfo, pointDistance),
               Attenuation(light, pointDistance),
               Normalize(VSub(LightXYZ(light), ret.intersectionPoint)))

\* shadowRay of the point-light branch, from its origin
PointShadowRay(light, origin) == Ray(origin, Normalize(VSub(LightXYZ(light), origin)))

\* the branch `scene.lights[i].position.w == 1`
PointLight(ret, mat, light, objects, camera) ==
    PointShaded(ret, mat, light, camera,
                Raycast(PointShadowRay(light,
                            VAdd(ret.intersectionPoint,
                                 VScale(Scale \div 1000, ret.intersectionNormal))),
                        objects),
                Length(VSub(LightXYZ(light), ret.intersectionPoint)))

\* the two branches of `if (shadowInfo.obj == nullptr)`
DirectionalTerms(ret, mat, light, camera, lit, lightDir) ==
    IF lit
    THEN Terms("lit",
               VMul(mat.ambient, light.ambient),
               DiffuseTerm(mat, light, ret.intersectionNormal, VNeg(lightDir)),
               SpecularTerm(mat, light, ret.intersectionNormal, lightDir,
                            ViewDir(camera, ret)))
    ELSE Terms("shadow", VMul(mat.ambient, light.ambient), Black, Black)

\* the branch `scene.lights[i].position.w == 0`
DirectionalLight(ret, mat, light, objects, camera) ==
    DirectionalTerms(ret, mat, light, camera,
        Raycast(Ray(VAdd(ret.intersectionPoint,
                         VScale(Scale \div 10000, ret.intersectionNormal)),
                    Normalize(VNeg(LightXYZ(light)))),
                objects).obj = 0,
        Normalize(LightXYZ(light)))

\* what the body of the light loop pushes for one light, before the reflection
Shade(ret, mat, light, objects, camera) ==
    IF light.position[4] = R(1) THEN PointLight(ret, mat, light, objects, camera)
    ELSE IF light.position[4] = 0 THEN DirectionalLight(ret, mat, light, objects, camera)
    ELSE Terms("none", Black, Black, Black)

\* ----------------------------------------------------------- RayTrace calls
\* One activation of RayTrace.  pc is "enter" before its Raycast, "loop" at
\* the head of the light loop, "call" while its reflection ray is traced.
\* i counts the lights from 1 (the code's i + 1).
Frame(ray, maxDepth) ==
    [ray |-> ray, maxDepth |-> maxDepth, pc |-> "enter",
     ret |-> [NoHit EXCEPT !.incomingRay = ray], i |-> 1,
     ambientValues |-> <<>>, diffuseValues |-> <<>>, specularValues |-> <<>>,
     finalAmbient |-> Black, finalDiffuse |-> Black, finalSpecular |-> Black,
     finalColor |-> Black]

\* the push_backs of one light
Pushed(f, sh) ==
    IF sh.kind = "lit"
    THEN [f EXCEPT !.ambientValues = Append(@, sh.ambient),
                   !.diffuseValues = Append(@, sh.diffuse),
                   !.specularValues = Append(@, sh.specular)]
    ELSE IF sh.kind = "shadow"
    THEN [f EXCEPT !.ambientValues = Append(@, sh.ambient)]
    ELSE f

RECURSIVE SumInto(_, _, _)
\* `for (glm::vec3 v : values) acc += v;` from position k on
SumInto(acc, values, k) ==
    IF k > Len(values) THEN acc
    ELSE SumInto(CAdd(acc, values[k]), values, k + 1)

\* `finalColor += finalAmbient + finalDiffuse + finalSpecular;` and `i++`
Accumulated(f, fa, fd, fs) ==
    [f EXCEPT !.finalAmbient = fa, !.finalDiffuse = fd, !.finalSpecular = fs,
              !.finalColor = CAdd(@, CAdd(CAdd(fa, fd), fs)),
              !.i = @ + 1, !.pc = "loop"]

\* the end of the body of the light loop
Accumulate(f) ==
    Accumulated(f,
        CDiv(SumInto(f.finalAmbient, f.ambientValues, 1), R(Len(f.ambientValues))),
        SumInto(f.finalDiffuse, f.diffuseValues, 1),
        SumInto(f.finalSpecular, f.specularValues, 1))

\* the reflection ray of a hit
ReflectionRay(ret) ==
    Ray(VAdd(ret.intersectionPoint, VScale(Scale \div 1000, ret.intersectionNormal)),
        Reflect(ret.incomingRay.direction, ret.intersectionNormal))

\* Resumed adding the returned color as it is, without the weight Kr
ResumedUnweighted(f, mat, value) ==
    Accumulate([f EXCEPT !.finalColor = CAdd(@, value)])

\* `finalColor += Kr * RayTrace(...)` once the recursive call has returned
\* value, then the rest of the body of the loop
Resumed(f, mat, value) ==
    Accumulate([f EXCEPT !.finalColor =
                    CAdd(@, CScale(Div(mat.shininess, R(128)), value))])

\* -------------------------------------------------------------- Image
\* glm::max, glm::min and glm::clamp of floats
GlmMax(x, y) == IF FLt(x, y) THEN y ELSE x
GlmMin(x, y) == IF FLt(y, x) THEN y ELSE x
Clamp(x, minVal, maxVal) == GlmMin(GlmMax(x, minVal), maxVal)

\* Image(w, h): data[k] of the model is the code's data[k - 1]
Image(w, h) == [width |-> w, height |-> h, data |-> [k \in 1..(w * h * 3) |-> 0]]

\* `static_cast<unsigned char>(c * 255)` of a clamped c: the bytes the build
\* can produce.  The cast truncates; of a NaN it is undefined, any byte.
CastToByte(c) == IF c = NaN THEN 0..255 ELSE {(c * 255) \div Scale}
\* Image::ToChar
ToChar(c) == CastToByte(Clamp(c, 0, R(1)))

\* Stored writing its three bytes one place further on
StoredShifted(img, index, bytes) ==
    [img EXCEPT !.data = [k \in DOMAIN @ |->
        IF k \in (index + 2)..(index + 4) THEN bytes[k - index - 1] ELSE @[k]]]

\* the three assignments of SetColor, bytes being what ToChar returned
Stored(img, index, bytes) ==
    [img EXCEPT !.data = [k \in DOMAIN @ |->
        IF k \in (index + 1)..(index + 3) THEN bytes[k - index] ELSE @[k]]]
\* PixelIndex without the width of a row
PixelIndexNoStride(img, x, y) == (y + x) * 3
\* `int index = (y * width + x) * 3;`
PixelIndex(img, x, y) == (y * img.width + x) * 3
\* the images Image::SetColor(x, y, color) can leave, for (x, y) inside img
SetColor(img, x, y, color) ==
    {Stored(img, PixelIndex(img, x, y), <<r, g, b>>) :
        r \in ToChar(color[1]), g \in ToChar(color[2]), b \in ToChar(color[3])}

\* ---------------------------------------------------- GetRayThruPixel
Camera(position, lookTarget, globalUp, fovY, focalLength, imageWidth, imageHeight) ==
    [position |-> position, lookTarget |-> lookTarget, globalUp |-> globalUp,
     fovY |-> fovY, focalLength |-> focalLength,
     imageWidth |-> imageWidth, imageHeight |-> imageHeight]

\* glm::tan of a small angle x, by its series; x2 is x * x
TanSeries(x, x2) ==
    Mul(x, R(1) + Mul(x2, Div(R(1), R(3)) + Mul(x2, Div(R(2), R(15))
                  + Mul(x2, Div(R(17), R(315)) + Mul(x2, Div(R(62), R(2835)))))))
Tan(x) == TanSeries(x, Mul(x, x))

\* viewportHeight = 2 * focalLength * tan(fovY / 2)
ViewportHeight(cam) == Mul(2 * cam.focalLength, Tan(Div(cam.fovY, R(2))))
\* viewportWidth = aspect * viewportHeight
ViewportWidth(cam, viewportHeight) ==
    Mul(Div(cam.imageWidth, cam.imageHeight), viewportHeight)
\* P = L + u * s + v * t, with
\* L = position + lookDirection * focalLength - u * (w / 2) - v * (h / 2),
\* s = ((pixelX + pixelSizeW) / imageWidth) * w, t likewise
PixelPoint(cam, pixelX, pixelY, lookDirection, u, v, viewportWidth, viewportHeight) ==
    VAdd(VAdd(VSub(VSub(VAdd(cam.position, VScale(cam.focalLength, lookDirection)),
                        VScale(Div(viewportWidth, R(2)), u)),
                   VScale(Div(viewportHeight, R(2)), v)),
              VScale(Mul(Div(R(pixelX) + Div(viewportWidth, cam.imageWidth),
                             cam.imageWidth),
                         viewportWidth), u)),
         VScale(Mul(Div(R(pixelY) + Div(viewportHeight, cam.imageHeight),
                        cam.imageHeight),
                    viewportHeight), v))
\* the ray once u = normalize(cross(lookDirection, globalUp)) is known
RayFromBasis(cam, pixelX, pixelY, lookDirection, u, viewportHeight) ==
    Ray(cam.position,
        Normalize(VSub(PixelPoint(cam, pixelX, pixelY, lookDirection, u,
                                  Normalize(Cross(u, lookDirection)),
                                  ViewportWidth(cam, viewportHeight), viewportHeight),
                       cam.position)))
RayAlong(cam, pixelX, pixelY, lookDirection) ==
    RayFromBasis(cam, pixelX, pixelY, lookDirection,
                 Normalize(Cross(lookDirection, cam.globalUp)), ViewportHeight(cam))
GetRayThruPixel(cam, pixelX, pixelY) ==
    RayAlong(cam, pixelX, pixelY, Normalize(VSub(cam.lookTarget, cam.position)))

\* ------------------------------------------------------------ process
\* the process while main runs; file is the state of the scene file on disk
Process(file) == [file |-> file, png |-> 0, exit |-> "running", diag |-> FALSE]

\* ------------------------------------------------- probes of the functions
VARIABLES
    probe,      \* the function probed, its input and its result
    scene,      \* main's `scene`: objects and lights
    camera,     \* main's `camera`
    primary,    \* the ray main passes to RayTrace
    maxDepth,   \* the maxDepth main passes to RayTrace
    stack,      \* the activations of RayTrace, the innermost last
    result,     \* the color returned to main, <<>> before that
    image,      \* main's `image`
    pixel,      \* the counters x and y of main's render loop
    os          \* the process and its files: the scene file as it is on disk,
                \* the number of times scene.png was written, the exit
                \* status ("running" before main returns, then "success"
                \* for 0 and "failure" for any other), and whether a
                \* diagnostic was written to cerr

vars == <<probe, scene, camera, primary, maxDepth, stack, result, image, pixel, os>>
traceVars == <<scene, camera, primary, maxDepth, stack, result, image, pixel, os>>

Axes == {V3(1, 0, 0), V3(-1, 0, 0), V3(0, 1, 0), V3(0, -1, 0), V3(0, 0, 1), V3(0, 0, -1)}
\* the ray of the spec's "outside the footprint" test: from (0,1,5) toward (5,1,-1)
Oblique == Normalize(VSub(V3(5, 1, -1), V3(0, 1, 5)))
ProbeOrigins ==
    {V3(x, y, z) : x \in -MaxXY..MaxXY, y \in -MaxXY..MaxXY, z \in -MaxZ..MaxZ}
ProbeRays == {Ray(o, d) : o \in ProbeOrigins, d \in Axes \cup {Oblique}}

Grey == Material(<<1000, 1000, 1000>>, <<5000, 5000, 5000>>, <<5000, 5000, 5000>>, R(1))
UnitSphere == Sphere(V3(0, 0, 0), R(1), Grey)
ProbeSpheres ==
    {UnitSphere, Sphere(V3(0, 0, 3), R(1), Grey),
     Sphere(V3(1, 0, -2), R(1), Grey), Sphere(V3(0, 1, -1), R(2), Grey)}
TriFront == Triangle(V3(-1, 0, -1), V3(1, 0, -1), V3(0, 2, -1), Grey)
TriBack == Triangle(V3(-1, 0, -1), V3(0, 2, -1), V3(1, 0, -1), Grey)
TriFloor == Triangle(V3(-10, 0, -10), V3(-10, 0, 10), V3(10, 0, -10), Grey)
ProbeTriangles == {TriFront, TriBack, TriFloor}

\* the same triangle with B and C exchanged
Reversed(tr) == Triangle(tr.A, tr.C, tr.B, tr.material)

MaxObjects == 2
ProbeObjects == ProbeSpheres \cup ProbeTriangles
RECURSIVE SeqsUpTo(_, _)
SeqsUpTo(S, n) ==
    IF n = 0 THEN {<<>>}
    ELSE LET shorter == SeqsUpTo(S, n - 1)
         IN  shorter \cup {Append(q, e) : q \in {r \in shorter : Len(r) = n - 1}, e \in S}
ProbeScenes == SeqsUpTo(ProbeObjects, MaxObjects)
\* rays down and up the z axis and across it, for the scenes of several objects
SceneRays == {r \in ProbeRays : r.origin[1] = 0 /\ r.origin[2] = 0}

\* an input: a ray and an object list, no function applied yet
ProbeInit ==
    \E objs \in ProbeScenes :
        \E r \in (IF Len(objs) = 1 THEN ProbeRays ELSE SceneRays) :
            /\ probe = [op |-> "input", objects |-> objs, ray |-> r]
            /\ scene = [objects |-> objs, lights |-> <<>>]
            /\ camera = [position |-> V3(0, 0, 0)]
            /\ primary = r
            /\ maxDepth = 0
            /\ stack = <<>>
            /\ result = <<>>
            /\ image = Image(0, 0)
            /\ pixel = [x |-> 0, y |-> 0]
            /\ os = Process("valid")

ProbeSphere ==
    /\ probe.op = "input"
    /\ Len(probe.objects) = 1
    /\ probe.objects[1].kind = "sphere"
    /\ probe' = [probe EXCEPT !.op = "sphere"] @@
                [hit |-> SphereIntersect(probe.objects[1], probe.ray, UninitVec, UninitVec)]
    /\ UNCHANGED traceVars

ProbeTriangle ==
    /\ probe.op = "input"
    /\ Len(probe.objects) = 1
    /\ probe.objects[1].kind = "tri"
    /\ probe' = [probe EXCEPT !.op = "tri"] @@
                [hit |-> TriangleIntersect(probe.objects[1], probe.ray, UninitVec, UninitVec)]
    /\ UNCHANGED traceVars

\* Raycast(ray, scene); the read of intersections[0] of an empty list may
\* also stop the process
ProbeRaycast ==
    /\ probe.op = "input"
    /\ \/ probe' = [probe EXCEPT !.op = "raycast"] @@
                    [info |-> Raycast(probe.ray, probe.objects)]
       \/ /\ probe.objects = <<>>
          /\ probe' = [probe EXCEPT !.op = "fault"] @@ [info |-> NoHit]
    /\ UNCHANGED traceVars

ProbeNext == ProbeSphere \/ ProbeTriangle \/ ProbeRaycast

\* the three functions applied to every input of the bounded sets
SpecProbe == ProbeInit /\ [][ProbeNext]_vars

\* ------------------------------------------------------ probes of SetColor
\* Largest width and height of an image
MaxW == 2
MaxH == 2
\* channel values: below, at and above the ends of [0, 1], and inside it
ProbeChannels == {R(-1), 0, 30, Scale \div 4, Scale \div 2, 9990, R(1), R(2), Inf, -Inf}
ProbeColors ==
    {<<r, g, b>> : r \in ProbeChannels, g \in {0, Scale \div 2, R(2)}, b \in {R(-1), 9990}}
        \cup {<<NaN, 0, R(1)>>}

\* an input: an image, a pixel inside it and a color
ImageInit ==
    \E w \in 1..MaxW, h \in 1..MaxH :
        \E x \in 0..(w - 1), y \in 0..(h - 1), color \in ProbeColors :
            /\ probe = [op |-> "color", x |-> x, y |-> y, color |-> color]
            /\ scene = [objects |-> <<>>, lights |-> <<>>]
            /\ camera = [position |-> V3(0, 0, 0)]
            /\ primary = Ray(V3(0, 0, 0), V3(0, 0, -1))
            /\ maxDepth = 0
            /\ stack = <<>>
            /\ result = <<>>
            /\ image = Image(w, h)
            /\ pixel = [x |-> 0, y |-> 0]
            /\ os = Process("valid")

\* image.SetColor(x, y, color)
ProbeSetColor ==
    /\ probe.op = "color"
    /\ image' \in SetColor(image, probe.x, probe.y, probe.color)
    /\ probe' = [probe EXCEPT !.op = "setcolor"]
    /\ UNCHANGED <<scene, camera, primary, maxDepth, stack, result, pixel, os>>

ImageNext == ProbeSetColor

\* SetColor applied to every input of the bounded sets
SpecImage == ImageInit /\ [][ImageNext]_vars

\* --------------------------------------------------- the traced scenes
\* Largest maxDepth main passes (the source passes 5; the least is -1)
MaxDepth == 2
\* Largest number of lights of a scene
MaxLights == 2

\* floorT1 of main, with its material
FloorMat ==
    Material(<<0, 5 * Root, 5 * Root>>, <<24 * Root, 76 * Root, 0>>,
             <<4 * Root, 70 * Root, 70 * Root>>, R(1))
Floor == Triangle(V3(-10, 0, -10), V3(-10, 0, 10), V3(10, 0, -10), FloorMat)
\* a triangle facing the floor from above, shininess 0.5 as most of main's
Dull ==
    Material(<<10 * Root, 10 * Root, 10 * Root>>, <<50 * Root, 50 * Root, 50 * Root>>,
             <<50 * Root, 50 * Root, 50 * Root>>, Scale \div 2)
Ceiling == Triangle(V3(-10, 2, -10), V3(10, 2, -10), V3(-10, 2, 10), Dull)
Ball == Sphere(V3(0, 2, 0), R(1), Grey)
ObjectLists == {<<Floor>>, <<Floor, Ball>>, <<Floor, Ceiling>>, <<Ball, Floor>>}

White == <<R(1), R(1), R(1)>>
Dim == <<20 * Root, 20 * Root, 20 * Root>>
\* main's light: directional, along (0,-1,-1)
Sun == Light(<<0, R(-1), R(-1), 0>>, Dim, White, White, R(1), 0, 0)
\* directional, along the floor
Side == Light(<<R(1), 0, 0, 0>>, Dim, White, White, R(1), 0, 0)
\* point lights: one above the ball, one between floor and ceiling
Lamp == Light(<<R(2), R(4), 0, R(1)>>, Dim, White, White, R(1), Scale \div 2, 0)
Bulb == Light(<<R(-1), R(1), R(-3), R(1)>>, Dim, White, White, R(1), 0, Scale \div 10)
\* a light record whose position.w is neither 1 nor 0
Spot == Light(<<R(2), R(4), 0, Scale \div 2>>, Dim, White, White, R(1), 0, 0)
BaseLights ==
    {<<Side, Lamp, Sun>>, <<Lamp, Side, Bulb>>, <<Sun, Bulb, Lamp>>, <<Bulb, Sun, Side>>,
     <<Spot, Sun, Lamp>>, <<Lamp, Spot, Sun>>}
Prefix(q, n) == SubSeq(q, 1, IF n < Len(q) THEN n ELSE Len(q))
LightLists == {Prefix(q, n) : q \in BaseLights, n \in 0..MaxLights}

\* main's camera position
CameraPos == <<R(-5), R(1), R(5)>>
PrimaryRays ==
    {Ray(V3(-2, 1, 0), V3(0, -1, 0)), Ray(V3(0, 5, 0), V3(0, -1, 0)),
     Ray(V3(-2, 1, 0), V3(0, 0, 1))}

\* ------------------------------------------------------ RayTrace, by steps
Top == stack[Len(stack)]
Rest == SubSeq(stack, 1, Len(stack) - 1)
\* ret.obj->material of an activation that hit
Mat(f) == scene.objects[f.ret.obj].material
Lights == scene.lights

TraceInit ==
    /\ probe = [op |-> "none"]
    /\ scene \in [objects : ObjectLists, lights : LightLists]
    /\ camera = [position |-> CameraPos]
    /\ primary \in PrimaryRays
    /\ maxDepth \in -1..MaxDepth
    /\ stack = <<>>
    /\ result = <<>>
    /\ image = Image(0, 0)
    /\ pixel = [x |-> 0, y |-> 0]
    /\ os = Process("valid")

\* `return value;` of the innermost activation: main receives it, or the
\* caller goes on after its recursive call
Return(value) ==
    /\ stack' = IF Rest = <<>> THEN <<>>
                ELSE [Rest EXCEPT ![Len(Rest)] = Resumed(@, Mat(@), value)]
    /\ result' = IF Rest = <<>> THEN value ELSE result
    /\ UNCHANGED <<probe, scene, camera, primary, maxDepth, image, pixel, os>>

\* main: `RayTrace(ray, scene, camera, maxDepth)`
CallRayTrace ==
    /\ stack = <<>>
    /\ result = <<>>
    /\ probe.op = "none"
    /\ stack' = <<Frame(primary, maxDepth)>>
    /\ UNCHANGED <<probe, scene, camera, primary, maxDepth, result, image, pixel, os>>

\* `ret = Raycast(...); if (ret.obj == nullptr) return color;`
RaycastMiss ==
    /\ stack # <<>>
    /\ Top.pc = "enter"
    /\ Raycast(Top.ray, scene.objects).obj = 0
    /\ Return(MissColor)

\* RaycastHit with an Intersect that keeps the distance in the object it hit
RaycastHitWriting ==
    /\ stack # <<>>
    /\ Top.pc = "enter"
    /\ \E info \in {Raycast(Top.ray, scene.objects)} :
        /\ info.obj # 0
        /\ stack' = [stack EXCEPT ![Len(stack)] = [@ EXCEPT !.ret = info, !.pc = "loop"]]
        /\ scene' = [scene EXCEPT !.objects[info.obj].material.shininess = info.t]
    /\ UNCHANGED <<probe, camera, primary, maxDepth, result, image, pixel, os>>

\* `ret = Raycast(...)` with a hit: on to the light loop
RaycastHit ==
    /\ stack # <<>>
    /\ Top.pc = "enter"
    /\ \E info \in {Raycast(Top.ray, scene.objects)} :
        /\ info.obj # 0
        /\ stack' = [stack EXCEPT ![Len(stack)] = [@ EXCEPT !.ret = info, !.pc = "loop"]]
    /\ UNCHANGED <<probe, scene, camera, primary, maxDepth, result, image, pixel, os>>

\* LightReflect passing maxDepth on to the recursive call as it is
LightReflectSameDepth ==
    /\ stack # <<>>
    /\ Top.pc = "loop"
    /\ Top.i <= Len(Lights)
    /\ Top.maxDepth >= 0
    /\ \E sh \in {Shade(Top.ret, Mat(Top), Lights[Top.i], scene.objects, camera)} :
        /\ sh.kind = "lit"
        /\ stack' = Append([stack EXCEPT ![Len(stack)] =
                                [Pushed(@, sh) EXCEPT !.pc = "call"]],
                           Frame(ReflectionRay(Top.ret), Top.maxDepth))
    /\ UNCHANGED <<probe, scene, camera, primary, maxDepth, result, image, pixel, os>>

\* the body of the light loop for a lit light when maxDepth >= 0, up to the
\* recursive call `RayTrace(reflectionRay, currentScene, camera, maxDepth - 1)`
LightReflect ==
    /\ stack # <<>>
    /\ Top.pc = "loop"
    /\ Top.i <= Len(Lights)
    /\ Top.maxDepth >= 0
    /\ \E sh \in {Shade(Top.ret, Mat(Top), Lights[Top.i], scene.objects, camera)} :
        /\ sh.kind = "lit"
        /\ stack' = Append([stack EXCEPT ![Len(stack)] =
                                [Pushed(@, sh) EXCEPT !.pc = "call"]],
                           Frame(ReflectionRay(Top.ret), Top.maxDepth - 1))
    /\ UNCHANGED <<probe, scene, camera, primary, maxDepth, result, image, pixel, os>>

\* the whole body of the light loop for a light that spawns no reflection
LightLocal ==
    /\ stack # <<>>
    /\ Top.pc = "loop"
    /\ Top.i <= Len(Lights)
    /\ \E sh \in {Shade(Top.ret, Mat(Top), Lights[Top.i], scene.objects, camera)} :
        /\ ~(sh.kind = "lit" /\ Top.maxDepth >= 0)
        /\ stack' = [stack EXCEPT ![Len(stack)] = Accumulate(Pushed(@, sh))]
    /\ UNCHANGED <<probe, scene, camera, primary, maxDepth, result, image, pixel, os>>

\* ReturnColor dividing the color by the number of lights before returning it
ReturnColorDivided ==
    /\ stack # <<>>
    /\ Top.pc = "loop"
    /\ Top.i > Len(Lights)
    /\ Return(CDiv(Top.finalColor, R(Len(Lights))))

\* `return finalColor;` after the last light
ReturnColor ==
    /\ stack # <<>>
    /\ Top.pc = "loop"
    /\ Top.i > Len(Lights)
    /\ Return(Top.finalColor)

Next ==
    \/ CallRayTrace
    \/ RaycastMiss
    \/ RaycastHit
    \/ LightReflect
    \/ LightLocal
    \/ ReturnColor

\* one call of RayTrace by main, for every scene, ray and maxDepth of the bounds
Spec == TraceInit /\ [][Next]_vars

Done == stack = <<>> /\ result # <<>>

\* ------------------------------------------------- main's render loop
\* floorT2 of main
Floor2 == Triangle(V3(-10, 0, 10), V3(10, 0, 10), V3(10, 0, -10), FloorMat)
\* a sphere the rays through the upper pixels meet
Dome == Sphere(<<R(-3) \div 2, R(3), R(-1) \div 2>>, R(1), Grey)
RenderObjects == {<<Floor, Floor2>>, <<Floor, Floor2, Dome>>, <<Floor, Floor2, Ceiling>>}
RenderLights == {<<Sun>>, <<Lamp>>, <<Sun, Bulb>>}
\* main passes 5
RenderDepths == {-1, 0, 5}
\* main's camera, for an image of w by h pixels: fovY is glm::radians(60)
MainCamera(w, h) ==
    Camera(CameraPos, V3(0, 1, 0), V3(0, 1, 0), 10472, R(1), R(w), R(h))

\* the scene file on disk: absent, not readable, cut short, with an object
\* record of unknown shape, or well formed
SceneFiles == {"missing", "unreadable", "truncated", "badshape", "valid"}

RenderInit ==
    \E w \in 1..MaxW, h \in 1..MaxH :
        /\ probe = [op |-> "render"]
        /\ scene \in [objects : RenderObjects, lights : RenderLights]
        /\ camera = MainCamera(w, h)
        /\ primary = Ray(UninitVec, UninitVec)
        /\ maxDepth \in RenderDepths
        /\ stack = <<>>
        /\ result = <<>>
        /\ image = Image(w, h)
        /\ pixel = [x |-> 0, y |-> 0]
        /\ os \in {Process(file) : file \in SceneFiles}

\* a pixel remains: the loop condition `y < image.height` (x < image.width
\* holds whenever it does)
InLoop == probe.op = "render" /\ pixel.y < image.height

\* RenderPixel passing y itself as pixelY
RenderPixelUnflipped ==
    /\ InLoop
    /\ stack = <<>>
    /\ result = <<>>
    /\ \E ray \in {GetRayThruPixel(camera, pixel.x, pixel.y)} :
        /\ primary' = ray
        /\ stack' = <<Frame(ray, maxDepth)>>
    /\ UNCHANGED <<probe, scene, camera, maxDepth, result, image, pixel, os>>

\* RenderPixel starting RayTrace from a color that depends on the counter x
RenderPixelStale ==
    /\ InLoop
    /\ stack = <<>>
    /\ result = <<>>
    /\ \E ray \in {GetRayThruPixel(camera, pixel.x, image.height - pixel.y - 1)} :
        /\ primary' = ray
        /\ stack' = <<[Frame(ray, maxDepth) EXCEPT !.finalColor = <<R(pixel.x), 0, 0>>]>>
    /\ UNCHANGED <<probe, scene, camera, maxDepth, result, image, pixel, os>>

\* `ray = GetRayThruPixel(camera, x, image.height - y - 1)` and the call
\* `RayTrace(ray, scene, camera, maxDepth)`
RenderPixel ==
    /\ InLoop
    /\ stack = <<>>
    /\ result = <<>>
    /\ \E ray \in {GetRayThruPixel(camera, pixel.x, image.height - pixel.y - 1)} :
        /\ primary' = ray
        /\ stack' = <<Frame(ray, maxDepth)>>
    /\ UNCHANGED <<probe, scene, camera, maxDepth, result, image, pixel, os>>

\* NextPixel of an inner loop `x <= image.width`
NextPixelInclusive(p, width) ==
    IF p.x + 1 <= width THEN [p EXCEPT !.x = @ + 1] ELSE [x |-> 0, y |-> p.y + 1]

\* `++x`, and `++y` with x = 0 at the end of a row
NextPixel(p, width) ==
    IF p.x + 1 < width THEN [p EXCEPT !.x = @ + 1] ELSE [x |-> 0, y |-> p.y + 1]

\* `image.SetColor(x, y, color)` with the color RayTrace returned, and the
\* step to the next pixel
RenderSetColor ==
    /\ InLoop
    /\ stack = <<>>
    /\ result # <<>>
    /\ image' \in SetColor(image, pixel.x, pixel.y, result)
    /\ pixel' = NextPixel(pixel, image.width)
    /\ result' = <<>>
    /\ UNCHANGED <<probe, scene, camera, primary, maxDepth, stack, os>>

\* WriteImage placed inside the loop: it does not wait for the last pixel
WriteImageInLoop ==
    /\ probe.op = "render"
    /\ stack = <<>>
    /\ os.exit = "running"
    /\ os.png = 0
    /\ os' = [os EXCEPT !.png = @ + 1]
    /\ UNCHANGED <<probe, scene, camera, primary, maxDepth, stack, result, image, pixel>>

\* `stbi_write_png("scene.png", ...)` after the loop
WriteImage ==
    /\ probe.op = "render"
    /\ pixel.y >= image.height
    /\ os.exit = "running"
    /\ os.png = 0
    /\ os' = [os EXCEPT !.png = @ + 1]
    /\ UNCHANGED <<probe, scene, camera, primary, maxDepth, stack, result, image, pixel>>

\* `return 0;` of main
ReturnMain ==
    /\ probe.op = "render"
    /\ os.exit = "running"
    /\ os.png = 1
    /\ os' = [os EXCEPT !.exit = "success"]
    /\ UNCHANGED <<probe, scene, camera, primary, maxDepth, stack, result, image, pixel>>

RenderNext ==
    \/ RenderPixel
    \/ RaycastMiss
    \/ RaycastHit
    \/ LightReflect
    \/ LightLocal
    \/ ReturnColor
    \/ RenderSetColor
    \/ WriteImage
    \/ ReturnMain

\* main's render loop over every pixel of the image
SpecRender == RenderInit /\ [][RenderNext]_vars

\* a step of RenderNext is possible: main is in its loop between two calls,
\* or an activation of RayTrace is at its Raycast or at the head of its
\* light loop, or main is past the loop and has not returned
RenderCanStep ==
    \/ InLoop /\ stack = <<>>
    \/ stack # <<>> /\ Top.pc \in {"enter", "loop"}
    \/ probe.op = "render" /\ pixel.y >= image.height /\ os.exit = "running"
\* main's only thread never stops while it has a step to take: weak fairness
\* of RenderNext, with RenderCanStep for its enabledness
FairRender == SpecRender /\ ([]<>~RenderCanStep \/ []<><<RenderNext>>_vars)

\* ======================================================================
\* Claims about Intersect and Raycast, checked under SpecProbe
\* ======================================================================
Applied(op) == probe.op = op
TheObj == probe.objects[1]

\* C1: Intersect returns a distance t > 0 or a negative number, never 0, for
\* every ray and every sphere or triangle, so that Raycast never records a
\* primitive as hit at t <= 0.
C1_IntersectNeverReturnsZero ==
    /\ (Applied("sphere") \/ Applied("tri")) => probe.hit.t # 0
    /\ Applied("raycast") /\ probe.info.obj # 0 => probe.info.t > 0

\* the distances Intersect returns for the objects of the probed scene
Dist(i) == Intersect(probe.objects[i], probe.ray, UninitVec, UninitVec).t
InFront == {i \in 1..Len(probe.objects) : Dist(i) > 0}

\* C2: Raycast returns the primitive with the smallest t among those with
\* t > 0, and that t; a primitive with t <= 0 is never returned; with no
\* primitive at t > 0 the result has no primitive.
C2_RaycastNearestPositive ==
    Applied("raycast") =>
        IF InFront = {} THEN probe.info.obj = 0
        ELSE /\ probe.info.obj \in InFront
             /\ probe.info.t = Dist(probe.info.obj)
             /\ \A i \in InFront : probe.info.t <= Dist(i)

\* b, D, t1 and t2 of the probed sphere and ray, as the claim states them
ClaimB == Dot(VSub(probe.ray.origin, TheObj.center), probe.ray.direction)
ClaimC ==
    Dot(VSub(probe.ray.origin, TheObj.center), VSub(probe.ray.origin, TheObj.center))
    - Mul(TheObj.radius, TheObj.radius)
ClaimD == Mul(ClaimB, ClaimB) - ClaimC
ClaimT1 == -ClaimB + Sqrt(ClaimD)
ClaimT2 == -ClaimB - Sqrt(ClaimD)
Min2(a, b) == IF a < b THEN a ELSE b

\* C3: the root policy of Sphere::Intersect: no hit when D < 0; when D > 0,
\* no hit if both roots are <= 0, the single positive root if exactly one
\* root is > 0, min(t1, t2) if both are > 0.
C3_SphereRootPolicy ==
    Applied("sphere") =>
        /\ ClaimD < 0 => probe.hit.t < 0
        /\ ClaimD > 0 =>
            /\ (ClaimT1 <= 0 /\ ClaimT2 <= 0) => probe.hit.t < 0
            /\ (ClaimT1 > 0 /\ ClaimT2 <= 0) => probe.hit.t = ClaimT1
            /\ (ClaimT2 > 0 /\ ClaimT1 <= 0) => probe.hit.t = ClaimT2
            /\ (ClaimT1 > 0 /\ ClaimT2 > 0) => probe.hit.t = Min2(ClaimT1, ClaimT2)

\* a probe whose arithmetic is exact: the ray runs along an axis and the
\* discriminant is a perfect square
IsAxis(d) == d \in Axes
ExactProbe ==
    /\ IsAxis(probe.ray.direction)
    /\ ClaimD >= 0
    /\ Mul(Sqrt(ClaimD), Sqrt(ClaimD)) = ClaimD
\* the rounding allowed where it is not exact: 0.005
Tol == Scale \div 200
FromCenter == VSub(probe.hit.point, TheObj.center)
SpecExampleRay == Ray(V3(0, 0, 5), V3(0, 0, -1))

\* C4: when Sphere::Intersect reports a hit at distance t, the point is
\* origin + t * direction, it lies on the sphere (exactly where the
\* arithmetic is exact, else within rounding), and the normal is
\* (point - center) scaled to unit length; the unit sphere at the origin and
\* the ray from (0,0,5) along (0,0,-1) give t = 4, point (0,0,1), normal (0,0,1).
C4_SphereHitPointAndNormal ==
    Applied("sphere") =>
        /\ probe.hit.t >= 0 =>
            /\ probe.hit.point
                 = VAdd(probe.ray.origin, VScale(probe.hit.t, probe.ray.direction))
            /\ Abs(Dot(FromCenter, FromCenter) - Mul(TheObj.radius, TheObj.radius))
                 <= (IF ExactProbe THEN 0 ELSE Tol)
            /\ Abs(Dot(probe.hit.normal, probe.hit.normal) - R(1))
                 <= (IF ExactProbe THEN 0 ELSE Tol)
            /\ \A k \in 1..3 :
                 Abs(Mul(probe.hit.normal[k], TheObj.radius) - FromCenter[k])
                   <= (IF ExactProbe THEN 0 ELSE Tol)
        /\ (TheObj = UnitSphere /\ probe.ray = SpecExampleRay) =>
             probe.hit = Hit(R(4), V3(0, 0, 1), V3(0, 0, 1))

\* witness of C4: the spec's example has been computed
C4_Witness ==
    Applied("sphere") /\ TheObj = UnitSphere /\ probe.ray = SpecExampleRay
    /\ probe.hit.t = R(4)

\* n, e, f, t, u, v of the probed triangle and ray, as the claim states them
ClaimN == Cross(VSub(TheObj.B, TheObj.A), VSub(TheObj.C, TheObj.A))
ClaimE == Cross(VNeg(probe.ray.direction), VSub(probe.ray.origin, TheObj.A))
ClaimF == Dot(VNeg(probe.ray.direction), ClaimN)
ClaimT == FDiv(Dot(VSub(probe.ray.origin, TheObj.A), ClaimN), ClaimF)
ClaimU == FDiv(Dot(VSub(TheObj.C, TheObj.A), ClaimE), ClaimF)
ClaimV == FDiv(Dot(VNeg(VSub(TheObj.B, TheObj.A)), ClaimE), ClaimF)
ClaimAccept ==
    /\ ClaimF > 0
    /\ FGt(ClaimT, 0) /\ FGt(ClaimU, 0) /\ FGt(ClaimV, 0)
    /\ FLe(FAdd(ClaimU, ClaimV), R(1))

\* C5: Triangle::Intersect reports a hit iff t > 0, u > 0, v > 0, u + v <= 1
\* and f > 0; so a ray that hits (A,B,C) misses (A,C,B), and the spec's ray
\* aimed outside the footprint of its triangle misses it while its ray
\* aimed inside hits.
C5_TriangleAcceptance ==
    Applied("tri") =>
        /\ (probe.hit.t >= 0) <=> ClaimAccept
        /\ probe.hit.t >= 0 => probe.hit.t = ClaimT
        /\ probe.hit.t >= 0 =>
             TriangleIntersect(Reversed(TheObj), probe.ray, UninitVec, UninitVec).t < 0
        /\ (TheObj = TriFront /\ probe.ray = Ray(V3(0, 1, 5), Oblique)) =>
             probe.hit.t < 0
        /\ (TheObj = TriFront /\ probe.ray = Ray(V3(0, 1, 5), V3(0, 0, -1))) =>
             probe.hit.t = R(6)

\* witness of C5: the spec's triangle has been hit from (0,1,5)
C5_Witness ==
    Applied("tri") /\ TheObj = TriFront
    /\ probe.ray = Ray(V3(0, 1, 5), V3(0, 0, -1)) /\ probe.hit.t > 0

\* C16: for a ray parallel to the plane of a triangle (f = 0), whatever the
\* divisions by f give for t, u and v (an infinity or a NaN),
\* Triangle::Intersect returns a negative number and leaves the intersection
\* point and the normal as they were.
C16_ParallelRayMisses ==
    (Applied("tri") /\ ClaimF = 0) =>
        /\ probe.hit.t < 0
        /\ probe.hit.point = UninitVec
        /\ probe.hit.normal = UninitVec

\* a ray parallel to the plane and off it, t = +Inf, that passes `t <= 0`;
\* one in the plane, t = NaN
C16_Witness ==
    /\ Applied("tri")
    /\ ClaimF = 0
    /\ ClaimT \in {Inf, NaN}
    /\ probe.hit.t = R(-1)

\* the orders in which the objects of the list objs can be pushed
Orders(objs) ==
    {[i \in 1..Len(objs) |-> objs[p[i]]] :
        p \in {q \in [1..Len(objs) -> 1..Len(objs)] :
                  \A i, j \in 1..Len(objs) : q[i] = q[j] => i = j}}

\* C17: Raycast reports the same outcome, hit or no hit, and the same
\* distance t for every order of the scene's object list.
C17_ObjectOrderIrrelevant ==
    Applied("raycast") =>
        \A objs \in Orders(probe.objects) :
            /\ (Raycast(probe.ray, objs).obj = 0) <=> (probe.info.obj = 0)
            /\ probe.info.obj # 0 => Raycast(probe.ray, objs).t = probe.info.t


\* ======================================================================
\* Claims about RayTrace, checked under Spec and FairSpec
\* ======================================================================
\* a step of Next is possible: main has not called RayTrace yet, or the
\* innermost activation is at its Raycast or at the head of its light loop
\* (one of RaycastMiss and RaycastHit, one of LightReflect, LightLocal and
\* ReturnColor is then enabled)
CanStep ==
    \/ stack = <<>> /\ result = <<>> /\ probe.op = "none"
    \/ stack # <<>> /\ Top.pc \in {"enter", "loop"}
\* RayTrace called by main, the thread that runs it never stopping while it
\* has a step to take: weak fairness of Next, WF_vars(Next), with CanStep
\* for the enabledness of Next
FairSpec == Spec /\ ([]<>~CanStep \/ []<><<Next>>_vars)

\* the activation that was innermost before the step, after the step
TopAfter == stack'[Len(stack)]
\* what the light at the head of the loop of the innermost activation pushes
TopShade == Shade(Top.ret, Mat(Top), Lights[Top.i], scene.objects, camera)
AtLight == stack # <<>> /\ Top.pc = "loop" /\ Top.i <= Len(Lights)

\* C6: processing a light whose shadow ray is occluded pushes no diffuse and
\* no specular term, spawns no reflection ray, and adds to the color the
\* ambient part alone (no diffuse or specular term of this or of an earlier
\* light); processing a light that is not occluded pushes its ambient,
\* diffuse and specular terms.
C6_OccludedLightAmbientOnly ==
    [][AtLight =>
        /\ TopShade.kind = "shadow" =>
            /\ Len(stack') = Len(stack)
            /\ TopAfter.diffuseValues = Top.diffuseValues
            /\ TopAfter.specularValues = Top.specularValues
            /\ TopAfter.finalColor = CAdd(Top.finalColor, TopAfter.finalAmbient)
        /\ TopShade.kind = "lit" =>
            /\ TopAfter.ambientValues = Append(Top.ambientValues, TopShade.ambient)
            /\ TopAfter.diffuseValues = Append(Top.diffuseValues, TopShade.diffuse)
            /\ TopAfter.specularValues = Append(Top.specularValues, TopShade.specular)
      ]_vars

\* the color of the hit ret of the primary ray from the light loop alone,
\* no reflection ray spawned
RECURSIVE LocalLoop(_)
LocalLoop(f) ==
    IF f.i > Len(Lights) THEN f.finalColor
    ELSE LocalLoop(Accumulate(Pushed(f,
             Shade(f.ret, Mat(f), Lights[f.i], scene.objects, camera))))
PrimaryHit == Raycast(primary, scene.objects)
LocalColor == LocalLoop([Frame(primary, maxDepth) EXCEPT !.ret = PrimaryHit])

\* C7: a call of RayTrace with maxDepth = 0 never has a recursive call below
\* it, and when its ray hits a primitive the color it returns is the color of
\* the light loop alone.
C7_NoReflectionAtDepthZero ==
    maxDepth = 0 =>
        /\ Len(stack) <= 1
        /\ (Done /\ PrimaryHit.obj # 0) => result = LocalColor

\* C8: below a primary call with maxDepth = N > 0 there are never more than N
\* nested recursive calls of RayTrace.
C8_ReflectionChainBounded ==
    maxDepth > 0 => Len(stack) - 1 <= maxDepth

\* every recursive call receives its caller's maxDepth - 1
DepthDecrements ==
    \A k \in 2..Len(stack) : stack[k].maxDepth = stack[k - 1].maxDepth - 1
\* an activation waiting for a recursive call has maxDepth >= 0 and a ray
\* that hit a primitive
CallersRecurseLegally ==
    \A k \in 1..Len(stack) :
        stack[k].pc = "call" => (stack[k].maxDepth >= 0 /\ stack[k].ret.obj # 0)
\* every activation but the innermost waits for its recursive call
OnlyCallersBelowTop ==
    \A k \in 1..(Len(stack) - 1) : stack[k].pc = "call"

\* C9: RayTrace returns to main for every scene and every maxDepth; each
\* recursive call receives maxDepth - 1, and no activation with maxDepth < 0
\* or with a ray that missed every primitive makes a recursive call.
C9_RayTraceTerminates ==
    /\ <>Done
    /\ [](DepthDecrements /\ CallersRecurseLegally /\ OnlyCallersBelowTop)

\* a call with maxDepth > 0 in a scene of two lights that hit a primitive,
\* recursed and has returned
C9_Witness ==
    /\ Done
    /\ maxDepth >= 1
    /\ Len(Lights) >= 2
    /\ PrimaryHit.obj # 0
    /\ result # LocalColor

\* the sum over the lights from k on of one term ("ambient", "diffuse" or
\* "specular") of the hit of the primary ray, every light counted once
RECURSIVE SumOfTerm(_, _)
SumOfTerm(term, k) ==
    IF k > Len(Lights) THEN Black
    ELSE CAdd(Shade(PrimaryHit, scene.objects[PrimaryHit.obj].material,
                    Lights[k], scene.objects, camera)[term],
              SumOfTerm(term, k + 1))
PhongSum ==
    CAdd(CDiv(SumOfTerm("ambient", 1), R(Len(Lights))),
         CAdd(SumOfTerm("diffuse", 1), SumOfTerm("specular", 1)))

\* C10: with maxDepth < 0 and at least one light, the color RayTrace returns
\* for a hit is (sum of the ambient terms) / L + sum of the diffuse terms
\* + sum of the specular terms, each light's terms counted once.
C10_ColorIsSumOfLightTerms ==
    (Done /\ maxDepth < 0 /\ Len(Lights) >= 1 /\ PrimaryHit.obj # 0)
        => result = PhongSum


\* C11: a call of RayTrace whose ray hits no primitive returns the color
\* (0.33, 0.6, 0.75) whatever maxDepth and the lights are, and never reaches
\* the light loop: it casts no shadow ray and makes no recursive call.
C11_MissReturnsMissColor ==
    /\ (Done /\ PrimaryHit.obj = 0) => result = <<33 * Root, 60 * Root, 75 * Root>>
    /\ \A k \in 1..Len(stack) :
        Raycast(stack[k].ray, scene.objects).obj = 0
            => (stack[k].pc = "enter" /\ k = Len(stack))

\* a primary ray that missed, in a scene with lights and maxDepth > 0
C11_Witness ==
    /\ Done
    /\ PrimaryHit.obj = 0
    /\ maxDepth >= 1
    /\ Len(Lights) >= 1
    /\ result = MissColor

\* C12: in a scene with no light, RayTrace returns black for a ray that hits
\* a primitive; the body of the light loop never runs, so nothing is divided
\* by the light count and no channel is NaN.
C12_NoLightsGivesBlack ==
    Len(Lights) = 0 =>
        /\ (Done /\ PrimaryHit.obj # 0) => result = <<0, 0, 0>>
        /\ Done => \A c \in 1..3 : result[c] # NaN
        /\ \A k \in 1..Len(stack) :
            /\ stack[k].i = 1
            /\ stack[k].ambientValues = <<>>
            /\ stack[k].finalAmbient = <<0, 0, 0>>

\* a ray that hit a primitive of a scene without lights, and has returned
C12_Witness ==
    /\ Done
    /\ Len(Lights) = 0
    /\ PrimaryHit.obj # 0
    /\ maxDepth >= 0
    /\ result = Black

\* the light at the head of the loop, the shaded point and its normal
TopLight == Lights[Top.i]
TopPoint == Top.ret.intersectionPoint
TopNormal == Top.ret.intersectionNormal
\* the nearest hit of the shadow ray of a point light: from the shaded point
\* moved 0.001 along the normal, toward the light
PointShadowHit ==
    LET origin == VAdd(TopPoint, VScale(Scale \div 1000, TopNormal))
    IN  Raycast(Ray(origin, Normalize(VSub(LightXYZ(TopLight), origin))), scene.objects)
\* the nearest hit of the shadow ray of a directional light: from the shaded
\* point moved 0.0001 along the normal, along the negated light direction
DirectionalShadowHit ==
    Raycast(Ray(VAdd(TopPoint, VScale(Scale \div 10000, TopNormal)),
                Normalize(VNeg(LightXYZ(TopLight)))), scene.objects)
\* the distance d from the shaded point to a point light
LightDistance == Length(VSub(LightXYZ(TopLight), TopPoint))

\* C19: a point light is treated as lit iff its shadow ray hits no primitive
\* or its nearest hit has t > d, d the distance to the light; a directional
\* light iff its shadow ray hits no primitive.
C19_LitIffUnoccluded ==
    AtLight =>
        /\ TopLight.position[4] = R(1) =>
            (TopShade.kind = "lit" <=>
                (PointShadowHit.obj = 0 \/ FGt(PointShadowHit.t, LightDistance)))
        /\ TopLight.position[4] = 0 =>
            (TopShade.kind = "lit" <=> DirectionalShadowHit.obj = 0)

\* a point light in front of the primitive its shadow ray hits: lit
C19_Witness ==
    /\ AtLight
    /\ TopLight.position[4] = R(1)
    /\ PointShadowHit.obj # 0
    /\ FGt(PointShadowHit.t, LightDistance)
    /\ TopShade.kind = "lit"

\* the activation that waits for the innermost one, before and after a step
Caller == stack[Len(stack) - 1]
CallerAfter == stack'[Len(stack) - 1]
\* the color the innermost activation returns when it returns
TopValue == IF Top.pc = "enter" THEN MissColor ELSE Top.finalColor
\* the color of the caller once value came back with the weight shininess/128
\* and the terms of the light loop were added
Weighted(f, after, value) ==
    CAdd(CAdd(f.finalColor, CScale(Div(Mat(f).shininess, R(128)), value)),
         CAdd(CAdd(after.finalAmbient, after.finalDiffuse), after.finalSpecular))

\* C20: at a hit, a light that is lit makes exactly one recursive call of
\* RayTrace when maxDepth >= 0, with maxDepth - 1, before the loop moves to
\* the next light; an occluded light, and any light when maxDepth < 0, makes
\* none; the color a recursive call returns is added to the caller's color
\* with the weight shininess/128.
C20_OneReflectionPerLitLight ==
    [][/\ AtLight =>
            IF TopShade.kind = "lit" /\ Top.maxDepth >= 0
            THEN /\ Len(stack') = Len(stack) + 1
                 /\ stack'[Len(stack')].maxDepth = Top.maxDepth - 1
                 /\ stack'[Len(stack')].pc = "enter"
                 /\ TopAfter.i = Top.i
                 /\ TopAfter.pc = "call"
            ELSE /\ Len(stack') = Len(stack)
                 /\ TopAfter.i = Top.i + 1
                 /\ TopAfter.pc = "loop"
       /\ (Len(stack) >= 2 /\ Len(stack') = Len(stack) - 1) =>
            /\ CallerAfter.i = Caller.i + 1
            /\ CallerAfter.pc = "loop"
            /\ CallerAfter.finalColor = Weighted(Caller, CallerAfter, TopValue)
      ]_vars

\* a recursive call that hit a primitive is about to return a color to a
\* caller whose material reflects, the caller at its second light
C20_Witness ==
    /\ Len(stack) = 2
    /\ Caller.pc = "call"
    /\ Caller.i = 2
    /\ Mat(Caller).shininess > 0
    /\ Top.pc = "loop"
    /\ Top.i > Len(Lights)
    /\ Top.finalColor # Black

\* ----------------------------------------------------------------------
\* the candidates of the Raycast that was probed
Candidates == Intersections(probe.ray, probe.objects)

\* C26: every access intersections[i] of Raycast has 0 <= i < the number of
\* candidates, also in a scene without primitives, and Raycast of a scene
\* without primitives returns a no-hit result.
C26_RaycastIndexInRange ==
    probe.op \in {"raycast", "fault"} =>
        /\ \A i \in IndicesRead(Candidates) : 0 <= i /\ i < Len(Candidates)
        /\ probe.objects = <<>> => (probe.op = "raycast" /\ probe.info.obj = 0)

\* values an uninitialized float may hold
Garbage == {Uninit, 0, R(-1), R(1), R(1000), Inf, -Inf, NaN}
\* a Raycast result with v in t and in every coordinate of the point and of
\* the normal
Filled(info, v) ==
    [info EXCEPT !.t = v, !.intersectionPoint = <<v, v, v>>,
                 !.intersectionNormal = <<v, v, v>>]
\* no field but obj of the no-hit result of Raycast was assigned
FieldsUninit(info) ==
    /\ info.t = Uninit
    /\ info.intersectionPoint = UninitVec
    /\ info.intersectionNormal = UninitVec

\* C27: RayTrace reads t, intersectionPoint and intersectionNormal of a
\* Raycast result only when obj is set.  Whatever the uninitialized fields of
\* a no-hit result hold, a primary ray that hit nothing never enters the light
\* loop, and the terms of a light whose shadow ray hit nothing are the same.
C27_NoHitFieldsNeverRead ==
    /\ \A k \in 1..Len(stack) :
        stack[k].pc # "enter" =>
            /\ stack[k].ret.obj # 0
            /\ stack[k].ret.t # Uninit
            /\ stack[k].ret.intersectionPoint # UninitVec
            /\ stack[k].ret.intersectionNormal # UninitVec
    /\ (AtLight /\ TopLight.position[4] = R(1) /\ PointShadowHit.obj = 0) =>
        /\ FieldsUninit(PointShadowHit)
        /\ \A v \in Garbage :
            PointShaded(Top.ret, Mat(Top), TopLight, camera,
                        Filled(PointShadowHit, v), LightDistance) = TopShade
    /\ (AtLight /\ TopLight.position[4] = 0 /\ DirectionalShadowHit.obj = 0) =>
        /\ FieldsUninit(DirectionalShadowHit)
        /\ TopShade.kind = "lit"

\* a point light whose shadow ray hit nothing, after a directional light
\* whose shadow ray hit nothing either
C27_Witness ==
    /\ AtLight
    /\ Top.i >= 2
    /\ TopLight.position[4] = R(1)
    /\ PointShadowHit.obj = 0
    /\ Lights[1].position[4] = 0
    /\ Len(Top.diffuseValues) = 1

\* C28: in every activation of RayTrace, once the k-th light is processed
\* exactly k ambient terms are collected, whatever position.w of the lights
\* is, so that the sum of the ambient terms is never divided by zero.
C28_AmbientCountIsLightCount ==
    \A k \in 1..Len(stack) :
        /\ stack[k].pc = "loop" => Len(stack[k].ambientValues) = stack[k].i - 1
        /\ stack[k].pc = "call" => Len(stack[k].ambientValues) = stack[k].i

\* ----------------------------------------------------------------------
\* C29: the normal of every hit Raycast returns, on a sphere or a triangle,
\* faces the incoming ray: dot(normal, ray direction) < 0, also when the
\* origin of the ray is inside the sphere it hits.
C29_NormalFacesRay ==
    (probe.op = "raycast" /\ probe.info.obj # 0) =>
        Dot(probe.info.intersectionNormal, probe.ray.direction) < 0

\* ======================================================================
\* Claims about Image, checked under SpecImage
\* ======================================================================
\* round(x * 255) of a float x in [0, 1], halves rounded up
Round255(x) == (2 * x * 255 + Scale) \div (2 * Scale)
\* clamp(c, 0, 1) as the claim means it
Clamped(c) == IF c < 0 THEN 0 ELSE IF c > Scale THEN Scale ELSE c
\* the byte stored for channel ch of the pixel that was set
StoredByte(ch) == image.data[(probe.y * image.width + probe.x) * 3 + ch]

\* C13: after SetColor(x, y, color) each byte stored for the pixel is
\* round(clamp(c, 0, 1) * 255) of its channel value c (0.5 may give 127 or
\* 128), and is within 0..255.
C13_SetColorRounds ==
    probe.op = "setcolor" =>
        \A ch \in 1..3 :
            /\ StoredByte(ch) \in 0..255
            /\ probe.color[ch] # NaN =>
                \/ StoredByte(ch) = Round255(Clamped(probe.color[ch]))
                \/ probe.color[ch] = Scale \div 2 /\ StoredByte(ch) \in {127, 128}

\* ======================================================================
\* Claims about the render loop, checked under SpecRender
\* ======================================================================
\* RayTrace as a function of (ray, scene, camera, maxDepth): TraceValue is the
\* color of a ray, LoopValue the color of an activation f from its light on
RECURSIVE TraceValue(_, _), LoopValue(_)
TraceValue(ray, depth) ==
    LET ret == Raycast(ray, scene.objects)
    IN  IF ret.obj = 0 THEN MissColor
        ELSE LoopValue([Frame(ray, depth) EXCEPT !.ret = ret])
LoopValue(f) ==
    IF f.i > Len(Lights) THEN f.finalColor
    ELSE LET sh == Shade(f.ret, Mat(f), Lights[f.i], scene.objects, camera)
         IN  IF sh.kind = "lit" /\ f.maxDepth >= 0
             THEN LoopValue(Resumed(Pushed(f, sh), Mat(f),
                                    TraceValue(ReflectionRay(f.ret), f.maxDepth - 1)))
             ELSE LoopValue(Accumulate(Pushed(f, sh)))

\* RayTrace has just returned the color of the current pixel to main
Returned == InLoop /\ stack = <<>> /\ result # <<>>

\* C14: the color RayTrace returns for a pixel is the function TraceValue of
\* the pixel's ray, the scene, the camera and maxDepth, whatever was traced
\* before it, and SetColor stores the one buffer that color determines: the
\* buffer of a run is a function of scene, camera and maxDepth.
C14_RenderIsDeterministic ==
    [][Returned =>
        /\ result = TraceValue(GetRayThruPixel(camera, pixel.x,
                                               image.height - pixel.y - 1), maxDepth)
        /\ SetColor(image, pixel.x, pixel.y, result) = {image'}
      ]_vars

\* every pixel of an image of two pixels or more is set, one at least from
\* a ray that hit a primitive
C14_Witness ==
    /\ probe.op = "render"
    /\ pixel.y = image.height
    /\ image.width * image.height >= 2
    /\ \E k \in DOMAIN image.data : image.data[k] \notin {0, 84, 153, 191}

\* C15: when the scene file is missing, unreadable or malformed, the program
\* writes a diagnostic and exits with a non-zero status, before any pixel is
\* traced and without writing scene.png.
C15_BadSceneFileIsFatal ==
    os.file # "valid" =>
        /\ stack = <<>>
        /\ pixel = [x |-> 0, y |-> 0]
        /\ os.png = 0
        /\ os.exit # "success"
        /\ os.exit = "failure" => os.diag

\* C18: no step of RayTrace, the Raycasts of its primary and shadow rays
\* included, changes the scene (its object list, the primitives, the lights),
\* the camera or the image buffer.
C18_TracingHasNoSideEffects ==
    [][stack # <<>> => (scene' = scene /\ camera' = camera /\ image' = image)]_vars

\* a recursive call of RayTrace at its second light, for a pixel after the
\* first, earlier pixels being stored in the buffer
C18_Witness ==
    /\ probe.op = "render"
    /\ pixel # [x |-> 0, y |-> 0]
    /\ Len(stack) >= 2
    /\ Top.pc = "loop"
    /\ Top.i = 2
    /\ image # Image(image.width, image.height)

\* the indices data[(y*width + x)*3 .. (y*width + x)*3 + 2] of pixel (x, y)
PixelBytes(x, y) == {(y * image.width + x) * 3 + j : j \in 0..2}

\* C21: the SetColor(x, y, color) of the render loop stores the three bytes
\* of the color at data[(y*width + x)*3 .. (y*width + x)*3 + 2] and leaves
\* every other byte, the length of the buffer, width and height as they were.
C21_SetColorWritesThreeBytes ==
    [][Returned =>
        /\ image'.width = image.width
        /\ image'.height = image.height
        /\ DOMAIN image'.data = DOMAIN image.data
        /\ \A k \in DOMAIN image.data :
            (k - 1) \notin PixelBytes(pixel.x, pixel.y) => image'.data[k] = image.data[k]
        /\ \A j \in 0..2 :
            image'.data[(pixel.y * image.width + pixel.x) * 3 + j + 1]
                \in ToChar(result[j + 1])
      ]_vars

\* a pixel after the first has been set: the bytes of the first pixel are
\* still there and the last pixel is still zero
C21_Witness ==
    /\ InLoop
    /\ stack = <<>>
    /\ result = <<>>
    /\ pixel # [x |-> 0, y |-> 0]
    /\ pixel # [x |-> 1, y |-> 0]
    /\ image.data[1] # 0
    /\ image.data[Len(image.data)] = 0

\* C22: the buffer of Image(width, height) has width*height*3 bytes, all of
\* them zero before the first SetColor; its length never changes; and the
\* index of every byte a SetColor of the render loop writes is inside
\* [0, width*height*3).
C22_BufferSizeAndBounds ==
    probe.op = "render" =>
        /\ R(image.width) = camera.imageWidth
        /\ R(image.height) = camera.imageHeight
        /\ DOMAIN image.data = 1..(image.width * image.height * 3)
        /\ (pixel = [x |-> 0, y |-> 0]) => \A k \in DOMAIN image.data : image.data[k] = 0
        /\ InLoop => PixelBytes(pixel.x, pixel.y) \subseteq 0..(image.width * image.height * 3 - 1)

\* the last pixel of an image of two rows and two columns at least is set
C22_Witness ==
    /\ probe.op = "render"
    /\ image.width >= 2
    /\ image.height >= 2
    /\ pixel = [x |-> 0, y |-> image.height]
    /\ \E j \in 0..2 : image.data[Len(image.data) - j] # 0

\* the place of a pixel in row-major order
Rank(p) == p.y * image.width + p.x

\* C23: the loop counter moves only when SetColor stores the color of the
\* current pixel, and then to the next pixel in row-major order, so every
\* pixel is set once, row after row; a trace begins only when the color of
\* the pixel before it is stored, and the counter and the buffer stay as they
\* are while a trace runs; scene.png is written once, after the last pixel
\* was set, and it is written in the end.
C23_PixelsOnceInRowMajorOrder ==
    /\ [][/\ pixel' # pixel =>
                /\ stack = <<>>
                /\ result # <<>>
                /\ Rank(pixel') = Rank(pixel) + 1
                /\ pixel'.x \in 0..(image.width - 1)
                /\ image' \in SetColor(image, pixel.x, pixel.y, result)
          /\ image' # image => pixel' # pixel
          /\ (stack = <<>> /\ stack' # <<>>) => (InLoop /\ result = <<>>)
          /\ os'.png # os.png =>
                /\ os.png = 0
                /\ os'.png = 1
                /\ Rank(pixel) = image.width * image.height
                /\ stack = <<>>
         ]_vars
    /\ [](pixel = [x |-> 0, y |-> 0] => \A k \in DOMAIN image.data : image.data[k] = 0)
    /\ <>(os.png = 1)

\* main has returned after an image of two rows and two columns at least,
\* traced with recursive calls
C23_Witness ==
    /\ os.exit = "success"
    /\ os.png = 1
    /\ image.width >= 2
    /\ image.height >= 2
    /\ maxDepth > 0
    /\ Rank(pixel) = image.width * image.height

\* the viewport row the claim gives to image row y
ViewportRow(y) == image.height - y - 1
\* how far up the ray through pixel (x, pixelY) of the viewport points
Upward(x, pixelY) == GetRayThruPixel(camera, x, pixelY).direction[2]

\* C24: the ray traced for a pixel of image row y, when its trace begins and
\* when its color comes back, goes through viewport row height - y - 1; image
\* row 0 gets the top row of the viewport (its rays
\* point higher than those of every other row); and y -> height - y - 1 maps
\* 0..height-1 one to one onto itself.
C24_RowsAreFlipped ==
    probe.op = "render" =>
        /\ (InLoop /\ (result # <<>> \/ (Len(stack) = 1 /\ Top.pc = "enter"))) =>
                primary = GetRayThruPixel(camera, pixel.x, ViewportRow(pixel.y))
        /\ (Len(stack) = 1 /\ Top.pc = "enter") =>
                \A y \in 1..(image.height - 1) :
                    Upward(pixel.x, ViewportRow(0)) > Upward(pixel.x, ViewportRow(y))
        /\ {ViewportRow(y) : y \in 0..(image.height - 1)} = 0..(image.height - 1)
        /\ \A y1, y2 \in 0..(image.height - 1) :
                ViewportRow(y1) = ViewportRow(y2) => y1 = y2

\* a pixel of the last row of an image of two rows or more is being traced
\* through viewport row 0
C24_Witness ==
    /\ InLoop
    /\ image.height >= 2
    /\ pixel.y = image.height - 1
    /\ Len(stack) = 1
    /\ Top.pc = "enter"
    /\ primary = GetRayThruPixel(camera, pixel.x, 0)

\* ======================================================================
\* The render loop run by several workers, and the claim about it
\* ======================================================================
\* Number of workers, and the largest number of pixels of an image
Workers == 2
MaxPixels == 4
\* images of one or two columns
ParallelWidths == {1, 2}

\* a worker between two pixels
Idle == [pc |-> "idle", x |-> 0, y |-> 0, ray |-> Ray(UninitVec, UninitVec),
         color |-> UninitVec, n |-> 1]
\* the pixels of an image of w by h
Pixels(w, h) == {[x |-> x, y |-> y] : x \in 0..(w - 1), y \in 0..(h - 1)}

\* the iterations of the loop of main handed out to workers: todo holds the
\* pixels no worker has taken, w the workers
ParallelInit ==
    \E w \in ParallelWidths, h \in 1..MaxPixels :
        /\ w * h <= MaxPixels
        /\ probe = [op |-> "parallel", todo |-> Pixels(w, h), w |-> [k \in 1..Workers |-> Idle]]
        /\ scene = [objects |-> <<Floor, Floor2, Dome>>, lights |-> <<Sun, Bulb>>]
        /\ camera = MainCamera(w, h)
        /\ primary = Ray(UninitVec, UninitVec)
        /\ maxDepth = 0
        /\ stack = <<>>
        /\ result = <<>>
        /\ image = Image(w, h)
        /\ pixel = [x |-> 0, y |-> 0]
        /\ os = Process("valid")

\* worker k takes a pixel:
\* `Ray ray = GetRayThruPixel(camera, x, image.height - y - 1);`
ParTake(k) ==
    /\ probe.op = "parallel"
    /\ probe.w[k].pc = "idle"
    /\ \E p \in probe.todo :
        probe' = [probe EXCEPT
            !.todo = @ \ {p},
            !.w[k] = [Idle EXCEPT !.pc = "trace", !.x = p.x, !.y = p.y,
                        !.ray = GetRayThruPixel(camera, p.x, image.height - p.y - 1)]]
    /\ UNCHANGED <<scene, camera, primary, maxDepth, stack, result, image, pixel, os>>

\* worker k: `glm::vec3 color = RayTrace(ray, scene, camera, maxDepth);`,
\* which reads the scene and the camera and writes its locals only
ParTrace(k) ==
    /\ probe.op = "parallel"
    /\ probe.w[k].pc = "trace"
    /\ \E color \in {TraceValue(probe.w[k].ray, maxDepth)} :
        probe' = [probe EXCEPT !.w[k] = [@ EXCEPT !.pc = "write", !.color = color]]
    /\ UNCHANGED <<scene, camera, primary, maxDepth, stack, result, image, pixel, os>>

\* worker k: one of the three assignments of `image.SetColor(x, y, color)`
ParWrite(k) ==
    /\ probe.op = "parallel"
    /\ probe.w[k].pc = "write"
    /\ \E wk \in {probe.w[k]} :
        /\ \E byte \in ToChar(wk.color[wk.n]) :
            image' = [image EXCEPT !.data[PixelIndex(image, wk.x, wk.y) + wk.n] = byte]
        /\ probe' = [probe EXCEPT !.w[k] = IF wk.n = 3 THEN Idle ELSE [wk EXCEPT !.n = @ + 1]]
    /\ UNCHANGED <<scene, camera, primary, maxDepth, stack, result, pixel, os>>

ParallelNext ==
    \/ \E k \in 1..Workers : ParTake(k)
    \/ \E k \in 1..Workers : ParTrace(k)
    \/ \E k \in 1..Workers : ParWrite(k)

\* the per-pixel steps of main's loop, interleaved in every way
SpecParallel == ParallelInit /\ [][ParallelNext]_vars

\* the bytes of the buffer worker k is writing
WrittenBy(k) ==
    IF probe.w[k].pc = "write"
    THEN {PixelIndex(image, probe.w[k].x, probe.w[k].y) + j : j \in 0..2}
    ELSE {}
\* every pixel was taken and every worker is through
ParallelDone == probe.todo = {} /\ \A k \in 1..Workers : probe.w[k].pc = "idle"
\* the bytes the sequential loop stores for pixel (x, y)
SequentialBytes(x, y) ==
    LET color == TraceValue(GetRayThruPixel(camera, x, image.height - y - 1), maxDepth)
    IN  [j \in 1..3 |-> CHOOSE b \in ToChar(color[j]) : TRUE]
\* the buffer the sequential loop leaves
SequentialData ==
    LET px == [p \in Pixels(image.width, image.height) |-> SequentialBytes(p.x, p.y)]
    IN  [k \in 1..(image.width * image.height * 3) |->
            px[[x |-> ((k - 1) \div 3) % image.width,
                y |-> ((k - 1) \div 3) \div image.width]][((k - 1) % 3) + 1]]

\* C25: when the per-pixel steps of distinct pixels are run by several
\* workers in any interleaving, no two workers are ever writing the same byte
\* of the buffer, and the buffer they leave is the buffer of the sequential
\* loop.
C25_PixelsAreIndependent ==
    probe.op = "parallel" =>
        /\ \A a, b \in 1..Workers : a # b => WrittenBy(a) \cap WrittenBy(b) = {}
        /\ ParallelDone => image.data = SequentialData

\* two workers have rendered an image of two rows and two columns whose
\* first and last pixels differ
C25_Witness ==
    /\ probe.op = "parallel"
    /\ ParallelDone
    /\ image.width >= 2
    /\ image.height >= 2
    /\ \E j \in 1..3 : image.data[j] # image.data[Len(image.data) - 3 + j]

\* ======================================================================
\* The order of the lights, checked under Spec
\* ======================================================================
\* RayTrace as a function, in the scene of the state with lights for its
\* light list: TraceWith is the color of a ray, LoopWith the color of an
\* activation f from its light on
RECURSIVE TraceWith(_, _, _), LoopWith(_, _)
TraceWith(lights, ray, depth) ==
    LET ret == Raycast(ray, scene.objects)
    IN  IF ret.obj = 0 THEN MissColor
        ELSE LoopWith(lights, [Frame(ray, depth) EXCEPT !.ret = ret])
LoopWith(lights, f) ==
    IF f.i > Len(lights) THEN f.finalColor
    ELSE LET sh == Shade(f.ret, Mat(f), lights[f.i], scene.objects, camera)
         IN  IF sh.kind = "lit" /\ f.maxDepth >= 0
             THEN LoopWith(lights,
                           Resumed(Pushed(f, sh), Mat(f),
                                   TraceWith(lights, ReflectionRay(f.ret), f.maxDepth - 1)))
             ELSE LoopWith(lights, Accumulate(Pushed(f, sh)))

\* C30: the color RayTrace returns for a ray that hit a primitive is the
\* color it returns with the lights of the scene listed in any other order.
C30_LightOrderIrrelevant ==
    (Done /\ PrimaryHit.obj # 0 /\ Len(Lights) >= 2) =>
        \A lights \in Orders(Lights) : TraceWith(lights, primary, maxDepth) = result

====
